---- MODULE Spec2Model ----
(***************************************************************************)
(* Monte Carlo estimation of pi (src/pi_monte_carlo.cpp): the xorshift     *)
(* RNG, the three estimators that draw from it, and the driver (main).     *)
(*                                                                         *)
(* Fixed-width unsigned integers are little-endian tuples of bytes: a      *)
(* uint32_t is 4 bytes, a uint64_t is 8 bytes.  Every operation names the  *)
(* width W (in bytes) of its result and drops what does not fit, as the    *)
(* C++ unsigned types do.  "Exact" arithmetic is the same operation at a   *)
(* width large enough that nothing is dropped.                             *)
(***************************************************************************)
EXTENDS Integers, Sequences, FiniteSets, TLC

----------------------------------------------------------------------------
(* Bytes and bitwise operations *)

Byte == 0 .. 255

Max(a, b) == IF a >= b THEN a ELSE b
Min(a, b) == IF a <= b THEN a ELSE b

\* bit k of the byte a
Bit(a, k) == (a \div (2 ^ k)) % 2

\* a XOR b and a OR b on bytes, bit by bit
XorBit(a, b, k) == ((Bit(a, k) + Bit(b, k)) % 2) * (2 ^ k)
OrBit(a, b, k) == Max(Bit(a, k), Bit(b, k)) * (2 ^ k)

XorByte(a, b) ==
    XorBit(a, b, 0) + XorBit(a, b, 1) + XorBit(a, b, 2) + XorBit(a, b, 3)
      + XorBit(a, b, 4) + XorBit(a, b, 5) + XorBit(a, b, 6) + XorBit(a, b, 7)

OrByte(a, b) ==
    OrBit(a, b, 0) + OrBit(a, b, 1) + OrBit(a, b, 2) + OrBit(a, b, 3)
      + OrBit(a, b, 4) + OrBit(a, b, 5) + OrBit(a, b, 6) + OrBit(a, b, 7)

\* the two operations tabulated: XorTab[a + 1][b + 1] is a XOR b
XorTab ==
    [a \in 1 .. 256 |-> [b \in 1 .. 256 |-> XorByte(a - 1, b - 1)] \o << >>]
      \o << >>
OrTab ==
    [a \in 1 .. 256 |-> [b \in 1 .. 256 |-> OrByte(a - 1, b - 1)] \o << >>]
      \o << >>

\* byte j of w (1 = least significant); bytes beyond the width read as 0
ByteAt(w, j) == IF j >= 1 /\ j <= Len(w) THEN w[j] ELSE 0

\* conversion to an unsigned type of W bytes (zero-extends or truncates)
Cast(w, W) == [j \in 1 .. W |-> ByteAt(w, j)] \o << >>

Zero(W) == Cast(<< >>, W)
IsZero(w) == \A j \in 1 .. Len(w) : w[j] = 0

Xor(a, b) == [j \in 1 .. Len(a) |-> XorTab[a[j] + 1][b[j] + 1]] \o << >>
Or(a, b)  == [j \in 1 .. Len(a) |-> OrTab[a[j] + 1][b[j] + 1]] \o << >>

\* w << k and w >> k in the width of w (0 <= k < 8 * Len(w)): by q whole
\* bytes and r bits, with m = 2^r and d = 2^(8 - r)
ShlBy(w, q, m, d) ==
    [j \in 1 .. Len(w) |->
        ((ByteAt(w, j - q) * m) % 256) + (ByteAt(w, j - q - 1) \div d)]
      \o << >>

ShrBy(w, q, m, d) ==
    [j \in 1 .. Len(w) |->
        (ByteAt(w, j + q) \div m) + ((ByteAt(w, j + q + 1) * d) % 256)]
      \o << >>

Shl(w, k) == ShlBy(w, k \div 8, 2 ^ (k % 8), 2 ^ (8 - (k % 8)))
Shr(w, k) == ShrBy(w, k \div 8, 2 ^ (k % 8), 2 ^ (8 - (k % 8)))

\* a + b and a * b in W bytes (carries out of the top byte are dropped)
RECURSIVE AddFrom(_, _, _, _, _)
AddFrom(a, b, j, carry, W) ==
    IF j > W THEN << >>
    ELSE LET t == ByteAt(a, j) + ByteAt(b, j) + carry
         IN  << t % 256 >> \o AddFrom(a, b, j + 1, t \div 256, W)

Add(a, b, W) == AddFrom(a, b, 1, 0, W)

\* index of the highest non-zero byte of w (0 for zero)
RECURSIVE Top(_, _)
Top(w, j) == IF j = 0 THEN 0 ELSE IF w[j] # 0 THEN j ELSE Top(w, j - 1)

\* column col of the schoolbook product: the sum of a[i] * b[col + 1 - i]
\* over lo <= i <= hi
RECURSIVE ColSum(_, _, _, _, _)
ColSum(a, b, col, lo, hi) ==
    IF lo > hi THEN 0
    ELSE a[lo] * b[col + 1 - lo] + ColSum(a, b, col, lo + 1, hi)

RECURSIVE MulFrom(_, _, _, _, _, _, _)
MulFrom(a, b, ta, tb, col, carry, W) ==
    IF col > W THEN << >>
    ELSE LET t == ColSum(a, b, col, Max(1, col + 1 - tb), Min(col, ta))
                    + carry
         IN  << t % 256 >> \o MulFrom(a, b, ta, tb, col + 1, t \div 256, W)

Mul(a, b, W) == MulFrom(a, b, Top(a, Len(a)), Top(b, Len(b)), 1, 0, W)

\* a <= b and a < b as unsigned numbers (any widths)
RECURSIVE CmpFrom(_, _, _)
CmpFrom(a, b, j) ==
    IF j = 0 THEN 0
    ELSE IF ByteAt(a, j) < ByteAt(b, j) THEN -1
    ELSE IF ByteAt(a, j) > ByteAt(b, j) THEN 1
    ELSE CmpFrom(a, b, j - 1)

Cmp(a, b) == CmpFrom(a, b, IF Len(a) > Len(b) THEN Len(a) ELSE Len(b))
Le(a, b) == Cmp(a, b) <= 0
Lt(a, b) == Cmp(a, b) < 0

\* a small natural number as a W-byte value
RECURSIVE NatBytes(_, _)
NatBytes(v, W) ==
    IF W = 0 THEN << >> ELSE << v % 256 >> \o NatBytes(v \div 256, W - 1)

U32 == 4
U64 == 8

\* bit length of w (0 for zero) and w as a natural number (w < 2^31)
RECURSIVE NatBits(_)
NatBits(v) == IF v = 0 THEN 0 ELSE 1 + NatBits(v \div 2)

RECURSIVE BitLenFrom(_, _)
BitLenFrom(w, j) ==
    IF j = 0 THEN 0
    ELSE IF w[j] # 0 THEN 8 * (j - 1) + NatBits(w[j])
    ELSE BitLenFrom(w, j - 1)

BitLen(w) == BitLenFrom(w, Len(w))

RECURSIVE ToNatFrom(_, _)
ToNatFrom(w, j) == IF j > Len(w) THEN 0 ELSE w[j] + 256 * ToNatFrom(w, j + 1)

ToNat(w) == ToNatFrom(w, 1)

\* a - b in the width of a (a >= b)
RECURSIVE SubFrom(_, _, _, _)
SubFrom(a, b, j, borrow) ==
    IF j > Len(a) THEN << >>
    ELSE LET t == a[j] - ByteAt(b, j) - borrow
         IN  << t % 256 >> \o SubFrom(a, b, j + 1, IF t < 0 THEN 1 ELSE 0)

Sub(a, b) == SubFrom(a, b, 1, 0)

\* a uint32_t v as << v \div 2, v % 2 >>: two natural numbers below 2^31
Split(w) == << ToNat(Shr(w, 1)), w[1] % 2 >>
Join(p) == Add(Shl(NatBytes(p[1], U32), 1), << p[2] >>, U32)

----------------------------------------------------------------------------
(* struct RNG *)

DefaultSeed  == NatBytes(123456789, U32)
\* 2463534242 = 2 * 1231767121 + 0
FallbackSeed == Join(<< 1231767121, 0 >>)

\* a constructor that keeps a seed of 0
RNG_KeepZero(seed) == seed

\* RNG::RNG(seed): the state after construction
RNG(seed) == IF IsZero(seed) THEN FallbackSeed ELSE seed

\* a draw whose last shift is by 15 instead of 5
next_u32_Shift15(s) ==
    LET x1 == Xor(s, Shl(s, 13))
        x2 == Xor(x1, Shr(x1, 17))
        x3 == Xor(x2, Shl(x2, 15))
    IN  [s |-> x3, ret |-> x3]

\* RNG::next_u32: the state it stores and the value it returns
next_u32(s) ==
    LET x1 == Xor(s, Shl(s, 13))
        x2 == Xor(x1, Shr(x1, 17))
        x3 == Xor(x2, Shl(x2, 5))
    IN  [s |-> x3, ret |-> x3]

----------------------------------------------------------------------------
(* double: a finite non-negative double is [m, e], the number m * 2^e with  *)
(* m an integer of at most 53 bits (8 bytes).                               *)

MantBits == 53

\* (double)val for a uint64_t val: exact up to 53 bits, else round to
\* nearest, ties to even
U64ToDouble(val) ==
    LET k == BitLen(val) - MantBits
    IN  IF k <= 0 THEN [m |-> val, e |-> 0]
        ELSE LET q    == Shr(val, k)
                 rem  == Sub(val, Shl(q, k))
                 half == Shl(NatBytes(1, U64), k - 1)
                 up   == Lt(half, rem) \/ (rem = half /\ q[1] % 2 = 1)
             IN  [m |-> IF up THEN Add(q, << 1 >>, U64) ELSE q, e |-> k]

\* d / 2^k and d * 0.5 (exact: only the exponent changes)
DivPow2(d, k) == [m |-> d.m, e |-> d.e - k]

\* d < 1.0
LessThanOne(d) == IsZero(d.m) \/ BitLen(d.m) + d.e <= 0

\* a next_double that keeps 27 bits of the first draw instead of 26
next_double_Shift5(s) ==
    LET r1  == next_u32(s)
        r2  == next_u32(r1.s)
        hi  == Cast(Shr(r1.ret, 5), U64)
        lo  == Cast(Shr(r2.ret, 5), U64)
        val == Or(Shl(hi, 27), lo)
    IN  [s |-> r2.s, val |-> val, ret |-> DivPow2(U64ToDouble(val), MantBits)]

\* a next_double that uses one draw for both halves
next_double_OneDraw(s) ==
    LET r1  == next_u32(s)
        hi  == Cast(Shr(r1.ret, 6), U64)
        lo  == Cast(Shr(r1.ret, 5), U64)
        val == Or(Shl(hi, 27), lo)
    IN  [s |-> r1.s, val |-> val, ret |-> DivPow2(U64ToDouble(val), MantBits)]

\* RNG::next_double: the state after the two draws, the 64-bit numerator
\* and the double returned
next_double(s) ==
    LET r1  == next_u32(s)
        r2  == next_u32(r1.s)
        hi  == Cast(Shr(r1.ret, 6), U64)
        lo  == Cast(Shr(r2.ret, 5), U64)
        val == Or(Shl(hi, 27), lo)
    IN  [s   |-> r2.s,
         val |-> val,
         ret |-> DivPow2(U64ToDouble(val), MantBits)]

----------------------------------------------------------------------------
(* circle_count_uint *)

MAX == << 255, 255, 255, 255 >>

max2 == Mul(Cast(MAX, U64), Cast(MAX, U64), U64)

\* the circle membership test: x*x + y*y <= MAX*MAX in uint64_t
CircleHit(x, y) ==
    LET xx == Mul(Cast(x, U64), Cast(x, U64), U64)
        yy == Mul(Cast(y, U64), Cast(y, U64), U64)
    IN  Le(Add(xx, yy, U64), max2)

----------------------------------------------------------------------------
(* coprime_count.  std::gcd on uint32_t is Euclid's algorithm;   *)
(* its operands are held as <<v \div 2, v % 2>> so that the remainder of    *)
(* two 32-bit numbers is computed in natural numbers below 2^31.            *)

\* m % n on uint32_t, n # 0
UMod(m, n) ==
    IF n[1] >= 2 ^ 30
    THEN \* n >= 2^31, so m < 2n: the remainder is m or m - n
         IF m[1] < n[1] \/ (m[1] = n[1] /\ m[2] < n[2]) THEN m
         ELSE LET d == 2 * (m[1] - n[1]) + (m[2] - n[2])
              IN  << d \div 2, d % 2 >>
    ELSE LET nv == 2 * n[1] + n[2]
             r  == m[1] % nv
             \* (2r + m[2]) % nv without forming 2r
             t  == IF r + m[2] >= nv - r THEN (r - (nv - r)) + m[2]
                   ELSE 2 * r + m[2]
         IN  << t \div 2, t % 2 >>

RECURSIVE Euclid(_, _)
Euclid(m, n) == IF n = << 0, 0 >> THEN m ELSE Euclid(n, UMod(m, n))

gcd(a, b) == Join(Euclid(Split(a), Split(b)))

\* operands used as drawn
OddForce_None(w) == w

OddForce(w) == Or(w, NatBytes(1, U32))

\* gcd(a, b) == 1
IsOne(g) == g = NatBytes(1, U32)

----------------------------------------------------------------------------
(* buffon_count.  y = u1 * 0.5 is exact.  theta = u2 * (pi/2)    *)
(* and sin(theta) are rounded by the floating-point unit and the maths      *)
(* library, whose result is known only up to its error: the comparison      *)
(* y <= 0.5 * sin(theta) is decided from bounds on sin(theta) in fixed      *)
(* point with 28 fraction bits, and where the bounds do not decide it,      *)
(* both outcomes are possible.                                              *)

One == 2 ^ 28
Limb == 2 ^ 14

\* M_PI / 2.0, times 2^28, rounded down and up
PiHalfLo == 421657428
PiHalfHi == 421657429

\* bounds on a * b / 2^28 for fixed-point a, b
MulLo(a, b) ==
    LET a1 == a \div Limb
        a0 == a % Limb
        b1 == b \div Limb
        b0 == b % Limb
    IN  a1 * b1 + ((a1 * b0 + a0 * b1) \div Limb)

MulHi(a, b) == MulLo(a, b) + 2

DivUp(a, c) == (a + c - 1) \div c

\* sin(t) = t * T(1), T(k) = 1 - x / (2k (2k + 1)) * T(k + 1), x = t^2;
\* every T(k) lies in [1 - x / (2k (2k + 1)), 1] for 0 <= x <= (pi/2)^2
Terms == 6
Coef(k) == 2 * k * (2 * k + 1)

RECURSIVE TLo(_, _, _)
RECURSIVE THi(_, _, _)
TLo(k, xLo, xHi) ==
    IF k > Terms THEN One - DivUp(xHi, Coef(k))
    ELSE One - DivUp(MulHi(xHi, THi(k + 1, xLo, xHi)), Coef(k))
THi(k, xLo, xHi) ==
    IF k > Terms THEN One
    ELSE One - (MulLo(xLo, TLo(k + 1, xLo, xHi)) \div Coef(k))

\* floor(d * 2^28) for a double d in [0, 1)
InUnit(d) == LessThanOne(d) /\ d.e + 28 <= 0
Fix(d) == ToNat(Shr(d.m, 0 - (d.e + 28)))

\* the possible values of (y <= half_proj) for u1, u2 = the two doubles drawn
Cross(u1, u2) ==
    IF ~(InUnit(u1) /\ InUnit(u2)) THEN BOOLEAN
    ELSE LET A    == Fix(u1)
             B    == Fix(u2)
             \* theta, with one unit for the rounding of the product
             thLo == Max(0, MulLo(B, PiHalfLo) - 1)
             thHi == MulHi(B + 1, PiHalfHi) + 1
             xLo  == MulLo(thLo, thLo)
             xHi  == MulHi(thHi, thHi)
             \* sin(theta), with one unit for the error of sin
             sLo  == Max(0, MulLo(thLo, TLo(1, xLo, xHi)) - 1)
             sHi  == MulHi(thHi, THi(1, xLo, xHi)) + 1
         IN  { c \in BOOLEAN : (c => A <= sHi) /\ (~c => A + 1 > sLo) }

----------------------------------------------------------------------------
(* main: the doubles p and pi_est.  A double of the driver is a record      *)
(* [kind, num, den, root]: NaN, +infinity, or the finite value num / den    *)
(* (its square root when root is TRUE).  Rounding of finite results is not  *)
(* modelled; zero, NaN and infinity are exactly those of IEEE arithmetic.   *)

NaN == [kind |-> "nan", num |-> 0, den |-> 1, root |-> FALSE]
Inf == [kind |-> "inf", num |-> 1, den |-> 0, root |-> FALSE]
Fin(a, b) == [kind |-> "fin", num |-> a, den |-> b, root |-> FALSE]

\* (double)a / (double)b for unsigned integers a, b
IntDiv(a, b) ==
    IF b = 0 THEN (IF a = 0 THEN NaN ELSE Inf) ELSE Fin(a, b)

\* c * p and c / p for a positive constant c
ScaleBy(c, p) ==
    IF p.kind = "fin" THEN Fin(c * p.num, p.den) ELSE p

DivInto(c, p) ==
    IF p.kind = "nan" THEN NaN
    ELSE IF p.kind = "inf" THEN Fin(0, 1)
    ELSE IF p.num = 0 THEN Inf
    ELSE Fin(c * p.den, p.num)

Sqrt(p) == IF p.kind = "fin" THEN [p EXCEPT !.root = TRUE] ELSE p

\* p > 0.0 (false for NaN)
Positive(p) == p.kind = "inf" \/ (p.kind = "fin" /\ p.num > 0)

CirclePiEst(hits, n)  == ScaleBy(4, IntDiv(hits, n))

\* an estimate that multiplies by p instead of dividing
CoprimePiEst_Times(hits, n) == Sqrt(ScaleBy(6, IntDiv(hits, n)))

CoprimePiEst(hits, n) == Sqrt(DivInto(6, IntDiv(hits, n)))
\* an estimate that always divides
BuffonPiEst_NoGuard(crosses, n) ==
    [val |-> DivInto(2, IntDiv(crosses, n)), divided |-> TRUE]


BuffonPiEst(crosses, n) ==
    LET p == IntDiv(crosses, n)
    IN  IF Positive(p) THEN [val |-> DivInto(2, p), divided |-> TRUE]
        ELSE [val |-> Fin(0, 1), divided |-> FALSE]

Ns == << 100, 1000, 10000, 100000 >>

\* main with the second method first
Methods_Swapped == << "coprime", "circle", "buffon" >>

Methods == << "circle", "coprime", "buffon" >>

----------------------------------------------------------------------------
(* The state: the driver's one RNG object, the driver's position, and the   *)
(* locals of the estimator call in progress.                                *)

VARIABLES
    s,      \* rng.s
    pc,     \* "main", the estimator being executed, or "done"
    n,      \* trials of the call in progress
    i,      \* its loop index
    hits,   \* its counter (hits / crosses)
    loop,   \* main: which of the three for-loops (0: not in main's loops)
    j,      \* main: index into Ns
    out,    \* the last line printed
    seed,   \* history: the seed the RNG was constructed with
    s0,     \* history: rng.s when the last estimator call was entered
    calls,  \* history: the calls issued on the RNG, in order
    last    \* history: the draws of the last trial or direct draw

vars == << s, pc, n, i, hits, loop, j, out, seed, s0, calls, last >>

MaxTrials == 3
MaxOps == 2
TrialScale == 20

Seeds == { NatBytes(0, U32), NatBytes(1, U32), NatBytes(42, U32),
           DefaultSeed, MAX }

NoOut == [method |-> "none", n |-> 0, count |-> 0, p |-> NaN, pi |-> NaN,
          divided |-> FALSE]
NoLast == [kind |-> "none"]

InitCommon ==
    /\ s = RNG(seed)
    /\ pc = "main"
    /\ n = 0 /\ i = 0 /\ hits = 0
    /\ out = NoOut
    /\ s0 = s
    /\ calls = << >>
    /\ last = NoLast

\* an arbitrary driver: any seed, any estimator with any trial count, and
\* direct draws, in any order
Init == seed \in Seeds /\ loop = 0 /\ j = 0 /\ InitCommon

\* main
InitMain == seed = DefaultSeed /\ loop = 1 /\ j = 1 /\ InitCommon

\* entry of an estimator: hits = 0, i = 0
Enter(m, k) ==
    /\ pc' = m
    /\ n' = k
    /\ i' = 0
    /\ hits' = 0
    /\ s0' = s
    /\ calls' = Append(calls, << m, k >>)
    /\ UNCHANGED << s, loop, j, out, seed, last >>

AnyCall ==
    /\ pc = "main" /\ loop = 0
    /\ Len(calls) < MaxOps
    /\ \E m \in { Methods[x] : x \in 1 .. Len(Methods) }, k \in 0 .. MaxTrials :
          Enter(m, k)

\* main's loops call the estimators with Ns[j] \div TrialScale trials: the
\* run of main is bounded by dividing every trial count by TrialScale
MainTrials(k) == Ns[k] \div TrialScale

MainCall ==
    /\ pc = "main" /\ loop \in 1 .. Len(Methods)
    /\ Enter(Methods[loop], MainTrials(j))

DrawU32 ==
    /\ pc = "main" /\ loop = 0
    /\ Len(calls) < MaxOps
    /\ \E r \in { next_u32(s) } :
           /\ s' = r.s
           /\ last' = [kind |-> "u32", pre |-> s, ret |-> r.ret]
    /\ calls' = Append(calls, << "next_u32", 0 >>)
    /\ UNCHANGED << pc, n, i, hits, loop, j, out, seed, s0 >>

DrawDouble ==
    /\ pc = "main" /\ loop = 0
    /\ Len(calls) < MaxOps
    /\ \E r \in { next_double(s) } :
           /\ s' = r.s
           /\ last' = [kind |-> "double", pre |-> s, val |-> r.val,
                       ret |-> r.ret]
    /\ calls' = Append(calls, << "next_double", 0 >>)
    /\ UNCHANGED << pc, n, i, hits, loop, j, out, seed, s0 >>

\* a loop that runs one trial too many
LoopCond_Inclusive(k, trials) == k <= trials

\* for (uint32_t i = 0; i < trials; i++)
LoopCond(k, trials) == k < trials

CircleStep ==
    /\ pc = "circle" /\ LoopCond(i, n)
    /\ \E r1 \in { next_u32(s) } :
       \E r2 \in { next_u32(r1.s) } :
       \E hit \in { CircleHit(r1.ret, r2.ret) } :
          /\ s' = r2.s
          /\ hits' = IF hit THEN hits + 1 ELSE hits
          /\ last' = [kind |-> "circle", pre |-> s, h0 |-> hits,
                      x |-> r1.ret, y |-> r2.ret, hit |-> hit]
    /\ i' = i + 1
    /\ UNCHANGED << pc, n, loop, j, out, seed, s0, calls >>

CoprimeStep ==
    /\ pc = "coprime" /\ LoopCond(i, n)
    /\ \E r1 \in { next_u32(s) } :
       \E r2 \in { next_u32(r1.s) } :
       \E a \in { OddForce(r1.ret) } :
       \E b \in { OddForce(r2.ret) } :
       \E g \in { gcd(a, b) } :
          /\ s' = r2.s
          /\ hits' = IF IsOne(g) THEN hits + 1 ELSE hits
          /\ last' = [kind |-> "coprime", pre |-> s, h0 |-> hits,
                      a |-> a, b |-> b, g |-> g, hit |-> IsOne(g)]
    /\ i' = i + 1
    /\ UNCHANGED << pc, n, loop, j, out, seed, s0, calls >>

BuffonStep ==
    /\ pc = "buffon" /\ LoopCond(i, n)
    /\ \E d1 \in { next_double(s) } :
       \E d2 \in { next_double(d1.s) } :
       \E c \in Cross(d1.ret, d2.ret) :
          /\ s' = d2.s
          /\ hits' = IF c THEN hits + 1 ELSE hits
          /\ last' = [kind |-> "buffon", pre |-> s, h0 |-> hits,
                      d1 |-> d1, d2 |-> d2, hit |-> c]
    /\ i' = i + 1
    /\ UNCHANGED << pc, n, loop, j, out, seed, s0, calls >>

\* the estimator returns and the loop body of main prints its line; main's
\* range-for moves to the next element of Ns, or to the next loop
Advance ==
    /\ pc' = "main"
    /\ IF loop = 0 THEN UNCHANGED << loop, j >>
       ELSE IF j < Len(Ns) THEN j' = j + 1 /\ UNCHANGED loop
       ELSE j' = 1 /\ loop' = loop + 1
    /\ UNCHANGED << s, n, i, hits, seed, s0, calls, last >>

CircleReturn ==
    /\ pc = "circle" /\ ~LoopCond(i, n)
    /\ out' = [method |-> "circle", n |-> n, count |-> hits,
               p |-> IntDiv(hits, n), pi |-> CirclePiEst(hits, n),
               divided |-> TRUE]
    /\ Advance

CoprimeReturn ==
    /\ pc = "coprime" /\ ~LoopCond(i, n)
    /\ out' = [method |-> "coprime", n |-> n, count |-> hits,
               p |-> IntDiv(hits, n), pi |-> CoprimePiEst(hits, n),
               divided |-> TRUE]
    /\ Advance

BuffonReturn ==
    /\ pc = "buffon" /\ ~LoopCond(i, n)
    /\ \E e \in { BuffonPiEst(hits, n) } :
           out' = [method |-> "buffon", n |-> n, count |-> hits,
                   p |-> IntDiv(hits, n), pi |-> e.val,
                   divided |-> e.divided]
    /\ Advance

\* return 0
MainExit ==
    /\ pc = "main" /\ loop = Len(Methods) + 1
    /\ pc' = "done"
    /\ UNCHANGED << s, n, i, hits, loop, j, out, seed, s0, calls, last >>

Next ==
    \/ AnyCall
    \/ DrawU32
    \/ DrawDouble
    \/ CircleStep
    \/ CoprimeStep
    \/ BuffonStep
    \/ CircleReturn
    \/ CoprimeReturn
    \/ BuffonReturn

NextMain ==
    \/ MainCall
    \/ CircleStep
    \/ CoprimeStep
    \/ BuffonStep
    \/ CircleReturn
    \/ CoprimeReturn
    \/ BuffonReturn
    \/ MainExit

Spec == Init /\ [][Next]_vars

SpecMain == InitMain /\ [][NextMain]_vars

----------------------------------------------------------------------------
(* Reference definitions used by the properties below *)

EstimatorNames == { "circle", "coprime", "buffon" }
InEstimator == pc \in EstimatorNames

IsWord(w) == Len(w) = U32 /\ \A k \in 1 .. U32 : w[k] \in Byte

\* bit k of the 32-bit word w, 0 outside 0 .. 31
WordBit(w, k) ==
    IF k < 0 \/ k > 31 THEN 0 ELSE Bit(w[(k \div 8) + 1], k % 8)

\* w XOR (w shifted by d bit positions), bit by bit: bit k of the result is
\* bit k of w XOR bit k + d of w; d < 0 shifts left, d > 0 shifts right
XorShiftedBit(w, d, k) == (WordBit(w, k) + WordBit(w, k + d)) % 2

XorShiftedByte(w, d, b) ==
    XorShiftedBit(w, d, b) + 2 * XorShiftedBit(w, d, b + 1)
      + 4 * XorShiftedBit(w, d, b + 2) + 8 * XorShiftedBit(w, d, b + 3)
      + 16 * XorShiftedBit(w, d, b + 4) + 32 * XorShiftedBit(w, d, b + 5)
      + 64 * XorShiftedBit(w, d, b + 6) + 128 * XorShiftedBit(w, d, b + 7)

XorShifted(w, d) ==
    << XorShiftedByte(w, d, 0), XorShiftedByte(w, d, 8),
       XorShiftedByte(w, d, 16), XorShiftedByte(w, d, 24) >>

RefXorShift(w) == XorShifted(XorShifted(XorShifted(w, 0 - 13), 17), 0 - 5)

\* k steps of next_u32 from state w
RECURSIVE Iter(_, _)
Iter(w, k) == IF k = 0 THEN w ELSE Iter(next_u32(w).s, k - 1)

\* x*x + y*y <= MAX*MAX in exact arithmetic (16 bytes hold every value)
Wide == 2 * U64
ExactInCircle(x, y) ==
    Le(Add(Mul(x, x, Wide), Mul(y, y, Wide), Wide), Mul(MAX, MAX, Wide))

\* the greatest common divisor by the binary algorithm (subtract and halve)
IsEven(w) == w[1] % 2 = 0

RECURSIVE RefGcd(_, _)
RefGcd(a, b) ==
    IF IsZero(a) THEN b
    ELSE IF IsZero(b) THEN a
    ELSE IF IsEven(a) /\ IsEven(b) THEN Shl(RefGcd(Shr(a, 1), Shr(b, 1)), 1)
    ELSE IF IsEven(a) THEN RefGcd(Shr(a, 1), b)
    ELSE IF IsEven(b) THEN RefGcd(a, Shr(b, 1))
    ELSE IF Le(b, a) THEN RefGcd(Shr(Sub(a, b), 1), b)
    ELSE RefGcd(a, Shr(Sub(b, a), 1))

TwoTo53 == Shl(NatBytes(1, U64), 53)

----------------------------------------------------------------------------
(* Properties *)

\* C1: the state is never zero: a seed of 0 is replaced by 2463534242 at
\* construction (any other seed is kept), and no draw takes a non-zero
\* state to zero
C1_StateNeverZero ==
    /\ ~IsZero(s)
    /\ calls = << >> =>
         s = IF seed = << 0, 0, 0, 0 >> THEN << 162, 140, 214, 146 >> ELSE seed

\* a generator constructed from seed 0 has been drawn from
C1_Witness ==
    /\ seed = << 0, 0, 0, 0 >>
    /\ Len(calls) = 2 /\ pc = "main"
    /\ s # << 162, 140, 214, 146 >>

\* C2: a circle trial is counted as a hit exactly when x*x + y*y <= MAX*MAX
\* holds for the two draws x, y in exact arithmetic
C2_HitIffInsideCircle ==
    last.kind = "circle" => (last.hit <=> ExactInCircle(last.x, last.y))

\* C3: next_double builds ((first >> 6) << 27) | (second >> 5) from two
\* consecutive draws, a value below 2^53, and returns it divided by 2^53,
\* which is at least 0 and below 1
DoubleInUnit(pre, d) ==
    LET r1 == next_u32(pre).ret
        r2 == next_u32(r1).ret
    IN  /\ d.val = Add(Mul(Cast(Shr(r1, 6), U64), NatBytes(2 ^ 27, U64), U64),
                       Cast(Shr(r2, 5), U64), U64)
        /\ Lt(d.val, TwoTo53)
        /\ d.ret = [m |-> d.val, e |-> 0 - 53]
        /\ LessThanOne(d.ret)
        /\ d.s = r2

C3_DoubleInUnit ==
    /\ last.kind = "double" =>
         DoubleInUnit(last.pre, [s |-> s, val |-> last.val, ret |-> last.ret])
    /\ last.kind = "buffon" =>
         /\ DoubleInUnit(last.pre, last.d1)
         /\ DoubleInUnit(last.d1.s, last.d2)

\* next_double has returned a value of at least one half
C3_Witness ==
    /\ last.kind = "double"
    /\ BitLen(last.val) = 53
    /\ s # last.pre

\* C4: one draw of next_u32 performs x ^= x << 13, x ^= x >> 17, x ^= x << 5
\* on 32 bits (bits shifted out at the top are dropped), stores the result
\* as the new state and returns it
C4_XorShift ==
    /\ IsWord(s)
    /\ last.kind = "u32" =>
         /\ last.ret = RefXorShift(last.pre)
         /\ s = last.ret
    /\ last.kind = "circle" =>
         /\ last.x = RefXorShift(last.pre)
         /\ last.y = RefXorShift(last.x)
         /\ s = last.y

\* a draw from a state whose top bit is set, so that x << 13 has dropped bits
C4_Witness ==
    /\ last.kind = "u32"
    /\ WordBit(last.pre, 31) = 1
    /\ s = last.ret

\* C5: the count of an estimator is never above the number of trials run,
\* the number of trials run is never above the number asked for, and the
\* count returned lies in 0 .. trials (0 when trials = 0)
C5_CountBounded ==
    /\ InEstimator => hits >= 0 /\ hits <= i /\ i <= n
    /\ out.method # "none" =>
         /\ out.count >= 0 /\ out.count <= out.n
         /\ out.n = 0 => out.count = 0

\* an estimator has returned a count strictly between 0 and its trials
C5_Witness ==
    /\ pc = "main" /\ out.method = "coprime"
    /\ out.n = MaxTrials
    /\ out.count > 0 /\ out.count < out.n

\* C6: in a coprime trial each operand is the draw with its lowest bit set,
\* so both are odd and non-zero, and the trial is counted exactly when the
\* greatest common divisor of the operands is 1
C6_CoprimeIffGcdOne ==
    last.kind = "coprime" =>
      LET r1 == next_u32(last.pre).ret
          r2 == next_u32(r1).ret
      IN  /\ last.a[1] % 2 = 1 /\ Shr(last.a, 1) = Shr(r1, 1)
          /\ last.b[1] % 2 = 1 /\ Shr(last.b, 1) = Shr(r2, 1)
          /\ last.g = RefGcd(last.a, last.b)
          /\ last.hit <=> RefGcd(last.a, last.b) = << 1, 0, 0, 0 >>
          /\ (pc = "coprime" /\ i > 0) =>
               hits = last.h0 + (IF last.hit THEN 1 ELSE 0)

\* a coprime trial whose operands share a factor, one of them made odd by
\* the forcing
C6_Witness ==
    /\ last.kind = "coprime" /\ pc = "coprime" /\ i > 0
    /\ ~last.hit
    /\ next_u32(last.pre).ret[1] % 2 = 0

\* C7 as stated: with a coprime count of 0 the driver's estimate
\* sqrt(6 / p) is NaN
C7_ZeroHitsNaN ==
    (out.method = "coprime" /\ out.count = 0) => out.pi.kind = "nan"

\* C7: with a coprime count of 0 the driver's estimate sqrt(6 / p) is not a
\* finite number: NaN when trials = 0 (p = 0/0), +infinity when trials > 0
\* (p = 0, 6 / 0 = +infinity); the driver goes on to its next step
C7_ZeroHitsNotFinite ==
    (out.method = "coprime" /\ out.count = 0) =>
      /\ out.pi.kind = (IF out.n = 0 THEN "nan" ELSE "inf")
      /\ pc \in { "main" } \cup EstimatorNames

\* the coprime estimator has returned 0 from a call with trials > 0
C7_Witness ==
    /\ pc = "main" /\ out.method = "coprime"
    /\ out.count = 0 /\ out.n > 0

\* C8: the Buffon estimate is 2 / p when p > 0 and 0.0, without a division,
\* when the crossing fraction is not positive
C8_BuffonGuard ==
    out.method = "buffon" =>
      IF out.count = 0
      THEN out.pi = Fin(0, 1) /\ ~out.divided
      ELSE /\ out.divided /\ out.pi.kind = "fin" /\ ~out.pi.root
           /\ out.pi.num * out.count = 2 * out.n * out.pi.den

\* the Buffon estimator has returned 0 crossings from a call with trials > 0
C8_Witness ==
    /\ pc = "main" /\ out.method = "buffon"
    /\ out.count = 0 /\ out.n > 0 /\ ~out.divided

\* C9: main constructs one generator from seed 123456789 and passes it to
\* every estimator call: the calls are circle for the four trial counts,
\* then coprime for the four, then Buffon for the four (each count divided
\* by TrialScale), and between the calls the state only moves by draws
MainCalls ==
    << << "circle", 100 \div TrialScale >>, << "circle", 1000 \div TrialScale >>,
       << "circle", 10000 \div TrialScale >>,
       << "circle", 100000 \div TrialScale >>,
       << "coprime", 100 \div TrialScale >>,
       << "coprime", 1000 \div TrialScale >>,
       << "coprime", 10000 \div TrialScale >>,
       << "coprime", 100000 \div TrialScale >>,
       << "buffon", 100 \div TrialScale >>, << "buffon", 1000 \div TrialScale >>,
       << "buffon", 10000 \div TrialScale >>,
       << "buffon", 100000 \div TrialScale >> >>

CallsInOrder ==
    /\ seed = << 21, 205, 91, 7 >>
    /\ Len(calls) <= Len(MainCalls)
    /\ calls = SubSeq(MainCalls, 1, Len(calls))
    /\ calls = << >> => s = seed
    /\ pc = "done" => calls = MainCalls

OneStream ==
    /\ seed' = seed
    /\ s' = s \/ s' = Iter(s, 2) \/ s' = Iter(s, 4)
    /\ pc = "main" => s' = s

C9_OneGeneratorInOrder == [] CallsInOrder /\ [][OneStream]_vars

\* main has run to its end
C9_Witness == pc = "done" /\ calls = MainCalls /\ s # seed

\* C10: an estimator called with n trials leaves the generator 2n draws on
\* (circle, coprime) or 4n draws on (Buffon: two doubles of two draws each)
DrawsPerTrial(m) == IF m = "buffon" THEN 4 ELSE 2

C10_DrawsPerCall ==
    /\ InEstimator => s = Iter(s0, DrawsPerTrial(pc) * i)
    /\ (pc = "main" /\ calls # << >>
          /\ calls[Len(calls)][1] \in EstimatorNames) =>
         s = Iter(s0, DrawsPerTrial(calls[Len(calls)][1])
                        * calls[Len(calls)][2])

\* a Buffon call with the largest trial count has returned
C10_Witness ==
    /\ pc = "main" /\ calls # << >>
    /\ calls[Len(calls)] = << "buffon", MaxTrials >>
    /\ out.method = "buffon"
    /\ s # s0
====
